---- MODULE Spec2Model ----
(***************************************************************************)
(* Insights caching and generation pipeline of the mortgage-intel monitor. *)
(*                                                                         *)
(*   - generateInsights / getFallbackInsights / ensureSourceCoverage       *)
(*     (server/insightsGenerator.js)                                       *)
(*   - POST /api/insights and POST /api/refresh (server/index.js)          *)
(*   - generateCategoryInsights / fetchAndCacheContent (server/scheduler)  *)
(*   - the insight cache tiers of db.js (getTodaysInsights, saveInsights,  *)
(*     clearInsights): in-memory map by category backed by an append-only  *)
(*     archive                                                             *)
(*                                                                         *)
(* Time is counted in whole hours of the target timezone.                  *)
(***************************************************************************)
EXTENDS Integers, Sequences, FiniteSets, TLC

\* ------------------------------------------------------------------------
\* Bounds of the model
\* ------------------------------------------------------------------------
MaxGen == 2          \* generateInsights calls made by POST /api/insights
MaxSchedGen == 3     \* generateInsights calls when the scheduler runs too
MaxSaves == 3        \* saveInsights calls on the cache tiers alone
MaxStoreOps == 3     \* saveArticle / cleanOldArticles calls on the article store
MaxBursts == 3       \* bursts of requests the rate limiter handles
MaxAdvances == 3     \* times the rate limiter's clock moves
MaxFns == 6          \* functions submitted to a concurrency limiter
MaxLiveFns == 4      \* the same where progress is checked
MaxSources == 3      \* sources of sources.json
MaxDigestReq == 2    \* GET /run-digest requests
MaxTicks == 2        \* keep-alive intervals that elapse during one digest
MaxTime == 24        \* last hour the clock reaches
MaxArticles == 3     \* longest article list given to generateInsights alone
MaxReq == 2          \* POST /api/insights requests in flight at once
StartHour == 21      \* hour of day 0 at which the process starts

\* ------------------------------------------------------------------------
\* Program constants
\* ------------------------------------------------------------------------
DedupHours == 1
AnalyzeLimit == 50
FallbackLimit == 5
CoverageLimit == 5
ContentLimit == 500
RetentionDays == 90
ResultCap == 100
RATE_LIMIT_WINDOW_MS == 60000
RATE_LIMIT_MAX_REQUESTS == 100
FeedConcurrency == 5
maxRetries == 3

None == [none |-> TRUE]

Min(a, b) == IF a < b THEN a ELSE b

Take(s, n) == SubSeq(s, 1, Min(n, Len(s)))

\* Array.prototype.filter with the test  a.source = src
SelectSeqBy(s, src) == SelectSeq(s, LAMBDA a : a.source = src)

\* Array.prototype.filter with the test  a.category = cat
FilterCategory(s, cat) == SelectSeq(s, LAMBDA a : a.category = cat)

\* sources of a list in order of first appearance
\* ([...new Set(list.map(a => a.source))], keys of sourceGroups)
DistinctSources(s) ==
  LET first == SelectSeq([i \in 1..Len(s) |-> i],
                 LAMBDA i : \A j \in 1..(i - 1) : s[j].source # s[i].source)
  IN [k \in 1..Len(first) |-> s[first[k]].source]

\* ------------------------------------------------------------------------
\* Articles
\* ------------------------------------------------------------------------
Categories == {"mortgage", "product-management", "competitor-intel"}

A1 == [link |-> "l1", source |-> "HousingWire", category |-> "mortgage"]
A2 == [link |-> "l2", source |-> "Redfin News", category |-> "mortgage"]
A3 == [link |-> "l3", source |-> "SVPG Articles",
       category |-> "product-management"]
A4 == [link |-> "l4", source |-> "Rocket", category |-> "competitor-intel"]
A5 == [link |-> "l5", source |-> "HousingWire", category |-> "mortgage"]
\* an article without a source name, and one whose source is the name of a
\* property every plain object inherits
A6 == [link |-> "l6", source |-> "", category |-> "mortgage"]
A7 == [link |-> "l7", source |-> "constructor", category |-> "mortgage"]

ArticleUniverse == {A1, A2, A5, A6, A7}

\* one article more than generateInsights analyses; the last one is the only
\* one of its source
LongList == [i \in 1..(AnalyzeLimit + 1) |-> IF i <= AnalyzeLimit THEN A1 ELSE A2]

ArticleLists ==
  UNION { [1..n -> ArticleUniverse] : n \in 0..MaxArticles } \cup {LongList}

Arg(list) == [defined |-> TRUE, list |-> list]
Undefined == [defined |-> FALSE, list |-> << >>]
GenArgs == { Arg(l) : l \in ArticleLists } \cup {Undefined}

\* ------------------------------------------------------------------------
\* insightsGenerator.js
\* ------------------------------------------------------------------------

\* articleSummaries: the first 50 articles, id = index in that slice
ArticleSummaries(articles) ==
  LET sl == Take(articles, AnalyzeLimit)
  IN [i \in 1..Len(sl) |->
        [id |-> i - 1, source |-> sl[i].source, link |-> sl[i].link]]

\* getFallbackInsights: one theme per source, one insight per theme
FallbackThemes(articles) ==
  LET grouped == [i \in 1..Len(articles) |->
                    [id |-> articles[i].link, source |-> articles[i].source,
                     link |-> articles[i].link]]
      srcs == DistinctSources(articles)
  IN [k \in 1..Len(srcs) |->
        [name |-> << srcs[k], "Updates" >>,
         insights |-> << [count |-> Len(SelectSeqBy(grouped, srcs[k])),
                          articles |-> Take(SelectSeqBy(grouped, srcs[k]),
                                            FallbackLimit)] >>]]

\* property names that sourceGroups = {} already answers with an inherited,
\* truthy value that has no push
InheritedKeys == {"constructor", "__proto__", "toString", "valueOf"}

\* an exception leaves the function: the promise of the caller rejects
Thrown == [thrown |-> TRUE]

\* sourceGroups[article.source].push(...) throws a TypeError for a source in
\* InheritedKeys
getFallbackInsights(articles) ==
  IF \E i \in 1..Len(articles) : articles[i].source \in InheritedKeys
  THEN Thrown
  ELSE [success |-> TRUE, fallback |-> TRUE,
        themes |-> FallbackThemes(articles), articleCount |-> Len(articles)]

EmptyResult == [success |-> FALSE, fallback |-> FALSE, themes |-> << >>,
                articleCount |-> 0]

\* theme names the model sees; the last three hold one of the words
\* 'commentary', 'roundup', 'industry news'
CommentaryName == << "Industry", "Commentary", "&", "Updates" >>

\* a theme name is the sequence of its words; toLowerCase acts on each word
LowerWord(w) ==
  CASE w \in {"Commentary", "COMMENTARY"} -> "commentary"
    [] w \in {"Roundup", "ROUNDUP"} -> "roundup"
    [] w \in {"Industry", "INDUSTRY"} -> "industry"
    [] w \in {"News", "NEWS"} -> "news"
    [] w \in {"Weekly", "WEEKLY"} -> "weekly"
    [] OTHER -> w

\* t.name.toLowerCase() includes 'commentary', 'roundup' or 'industry news'
IsCatchAll(name) ==
  LET lower == [i \in 1..Len(name) |-> LowerWord(name[i])]
  IN \/ \E i \in 1..Len(lower) : lower[i] \in {"commentary", "roundup"}
     \/ \E i \in 1..(Len(lower) - 1) :
          lower[i] = "industry" /\ lower[i + 1] = "news"

RECURSIVE ResolveIds_OneBased(_, _)
\* (ids taken as positions counted from one)
ResolveIds_OneBased(ids, summaries) ==
  IF ids = << >> THEN << >>
  ELSE IF Head(ids) >= 1 /\ Head(ids) <= Len(summaries)
       THEN << summaries[Head(ids)] >>
              \o ResolveIds_OneBased(Tail(ids), summaries)
       ELSE ResolveIds_OneBased(Tail(ids), summaries)

\* articleIds -> summaries, ids with no summary dropped (.filter(a => a))
RECURSIVE ResolveIds(_, _)
ResolveIds(ids, summaries) ==
  IF ids = << >> THEN << >>
  ELSE IF Head(ids) >= 0 /\ Head(ids) < Len(summaries)
       THEN << summaries[Head(ids) + 1] >> \o ResolveIds(Tail(ids), summaries)
       ELSE ResolveIds(Tail(ids), summaries)

themesWithArticles(themes, summaries) ==
  [t \in 1..Len(themes) |->
     [name |-> themes[t].name,
      insights |-> [k \in 1..Len(themes[t].insights) |->
                      [count |-> 0,
                       articles |-> ResolveIds(themes[t].insights[k].articleIds,
                                               summaries)]]]]

\* sources already present in some insight (falsy sources are skipped)
RepresentedSources(themes) ==
  UNION { UNION { { themes[t].insights[k].articles[a].source :
                      a \in 1..Len(themes[t].insights[k].articles) } :
                  k \in 1..Len(themes[t].insights) } :
          t \in 1..Len(themes) } \ {""}

RECURSIVE FirstCatchAll(_, _)
\* Array.prototype.find: index of the first catch-all theme, 0 if none
FirstCatchAll(themes, i) ==
  IF i > Len(themes) THEN 0
  ELSE IF IsCatchAll(themes[i].name) THEN i
  ELSE FirstCatchAll(themes, i + 1)

RECURSIVE SynthInsights(_, _)
\* one synthesized insight per missing source that has articles
SynthInsights(missing, summaries) ==
  IF missing = << >> THEN << >>
  ELSE LET sa == SelectSeqBy(summaries, Head(missing))
       IN (IF Len(sa) > 0
           THEN << [count |-> Len(sa), articles |-> Take(sa, CoverageLimit)] >>
           ELSE << >>) \o SynthInsights(Tail(missing), summaries)

ensureSourceCoverage(themes, summaries) ==
  LET all == DistinctSources(summaries)
      rep == RepresentedSources(themes)
      missing == SelectSeq(all, LAMBDA s : s \notin rep)
      idx == FirstCatchAll(themes, 1)
      base == IF idx = 0
              THEN Append(themes, [name |-> CommentaryName, insights |-> << >>])
              ELSE themes
      at == IF idx = 0 THEN Len(base) ELSE idx
  IN IF missing = << >> THEN themes
     ELSE [base EXCEPT ![at].insights = @ \o SynthInsights(missing, summaries)]

\* responses of anthropic.messages.create
RespReject == [type |-> "reject"]
RespNoText == [type |-> "notext"]
RespNonJson == [type |-> "nonjson"]
RespNoThemes == [type |-> "nothemes"]
RespNoInsights == [type |-> "noinsights"]
RespNoIds == [type |-> "noids"]
RespJson(themes) == [type |-> "json", themes |-> themes]

JsonThemes ==
  { << >>,
    << [name |-> << "Market", "Trends" >>,
        insights |-> << [articleIds |-> << 0 >>] >>] >>,
    << [name |-> << "WEEKLY", "ROUNDUP" >>,
        insights |-> << [articleIds |-> << 1, 7 >>] >>] >>,
    << [name |-> << "Industry", "Trends" >>,
        insights |-> << [articleIds |-> << 0 >>] >>],
       [name |-> << "Industry", "News" >>, insights |-> << >>],
       [name |-> << "Weekly", "Roundup" >>,
        insights |-> << [articleIds |-> << 0 >>] >>] >>,
    << [name |-> << "Market", "Trends" >>,
        insights |-> << [articleIds |-> << 0, 1, 2 >>] >>] >>,
    << [name |-> << "Market", "Trends" >>,
        insights |-> << [articleIds |-> << AnalyzeLimit, -1, 0 >>] >>] >> }

LLMResponses ==
  {RespReject, RespNoText, RespNonJson, RespNoThemes, RespNoInsights,
   RespNoIds}
    \cup { RespJson(t) : t \in JsonThemes }

\* (the credential test moved before the empty-list test)
generateInsightsSync_KeyFirst(arg, key) ==
  IF ~key THEN getFallbackInsights(arg.list)
  ELSE IF ~arg.defined \/ Len(arg.list) = 0 THEN EmptyResult
  ELSE None

\* generateInsights up to the await of the model call: the result, or None
\* when the request to the model is sent
\* (arg.defined = FALSE stands for a call without an article list)
generateInsightsSync(arg, key) ==
  IF ~arg.defined \/ Len(arg.list) = 0 THEN EmptyResult
  ELSE IF ~key THEN getFallbackInsights(arg.list)
  ELSE None

\* generateInsights from the settled model call to its return
generateInsightsAfter(articles, resp) ==
  IF resp.type # "json"
  THEN getFallbackInsights(articles)
  ELSE [success |-> TRUE, fallback |-> FALSE,
        themes |-> ensureSourceCoverage(
                     themesWithArticles(resp.themes, ArticleSummaries(articles)),
                     ArticleSummaries(articles)),
        articleCount |-> Len(articles)]

\* ------------------------------------------------------------------------
\* State of the server process
\* ------------------------------------------------------------------------
VARIABLES
  now,            \* clock, in hours
  apiKey,         \* process.env.ANTHROPIC_API_KEY is set
  dbUp,           \* the persistent store answers
  insightsCache,  \* in-memory tier: category -> entry
  archive,        \* insights_archive rows, in insertion order
  stored,         \* articles table
  genCount,       \* generateInsights calls made so far
  llmCalls,       \* model calls made for insights, per category and day
  lastSave,       \* the latest saveInsights call of each category
  req,            \* POST /api/insights handlers
  refreshPc,      \* POST /api/refresh handler
  sched,          \* fetchAndCacheContent
  task,           \* generateCategoryInsights, one per category
  gArticles,      \* generateInsights on its own: argument,
  gPc,            \*   position,
  gCalls,         \*   number of model calls,
  gResp,          \*   what the model call settled with,
  gResult,        \*   returned value
  dbArticles,     \* db.js `articles`: link -> stored article,
  articleIds,     \*   links in order of first save
  sOps,           \* saveArticle / cleanOldArticles calls made on it
  sCall,          \* the latest call on the article store
  sRet,           \*   and what it returned
  rateLimitStore, \* rateLimit: ip -> {count, windowStart}
  rNow,           \*   Date.now(), in seconds
  rAdvances,      \*   times the clock moved
  rBursts,        \*   bursts of requests handled
  rPassed,        \*   per ip, the requests passed to next() at each instant
  rLast,          \*   the latest burst and its answers
  lConcurrency,   \* createLimiter: its concurrency, 0 before it is called,
  lActive,        \*   active
  lQueue,         \*   queue, as the numbers of the waiting functions
  lFn,            \*   where each submitted function is
  lPromise,       \*   the promise the limiter returned for each function
  lStarted,       \*   the functions in the order they were started
  fPc,            \* fetchRSS of each source: where it is,
  fAttempt,       \*   attempt
  fParses,        \*   parser.parseURL calls made
  fFailed,        \*   of which failed
  fSucceeded,     \*   whether one succeeded
  fSleeps,        \*   the delays slept, in ms
  fResult,        \*   what it returned
  fAll,           \* fetchAllFeeds: how its promise settled
  dReq            \* GET /run-digest handlers and their responses

vars == << now, apiKey, dbUp, insightsCache, archive, stored, genCount, llmCalls,
           lastSave, req, refreshPc, sched, task, gArticles, gPc, gCalls,
           gResp, gResult, dbArticles, articleIds, sOps, sCall, sRet,
           rateLimitStore, rNow, rAdvances, rBursts, rPassed, rLast,
           lConcurrency, lActive, lQueue, lFn, lPromise, lStarted,
           fPc, fAttempt, fParses, fFailed, fSucceeded, fSleeps, fResult,
           fAll, dReq >>

pipelineVars == << now, insightsCache, archive, stored, genCount, llmCalls,
                   lastSave, req, refreshPc, sched, task >>
genVars == << gArticles, gPc, gCalls, gResp, gResult >>
storeVars == << dbArticles, articleIds, sOps, sCall, sRet >>
rateVars == << rateLimitStore, rNow, rAdvances, rBursts, rPassed, rLast >>
limVars == << lConcurrency, lActive, lQueue, lFn, lPromise, lStarted >>
feedVars == << fPc, fAttempt, fParses, fFailed, fSucceeded, fSleeps, fResult,
              fAll >>
otherVars == << rateVars, limVars, feedVars, dReq >>
appVars == << apiKey, dbUp, pipelineVars, genVars, storeVars >>

ClientIps == {"ip1", "ip2"}

DigestRequests == 1..MaxDigestReq

\* a GET /run-digest request that has not arrived: its handler's position,
\* which index.js serves it, the keepAlive interval, the handler's
\* connectionOpen, the connection itself, and what was done on the response
IdleDigest ==
  [pc |-> "idle", tracked |-> FALSE, keepAlive |-> FALSE,
   connectionOpen |-> TRUE, open |-> TRUE, ends |-> 0, ticks |-> 0,
   writeAfterEnd |-> FALSE, usedAfterClose |-> FALSE]

\* the functions handed to a limiter, numbered in order of submission
Fns == 1..MaxFns

ReqCategories == {"mortgage", "all"}
\* a category value the server does not know
UnknownCategory == "crypto"
CacheKeys == Categories \cup ReqCategories \cup {UnknownCategory}

\* isValidCategory(category), called by GET /api/articles only
ValidCategories == {"mortgage", "product-management", "competitor-intel", "all"}
isValidCategory(category) ==
  IF category = "" THEN TRUE ELSE category \in ValidCategories

NotArray == << [notArray |-> TRUE] >>
ArrayLists == { << >>, << A1 >> }
ReqArticleLists == ArrayLists \cup {NotArray}

\* what the feeds may deliver in one fetchAllFeeds
FeedBatches == { {}, {A1}, {A1, A3, A4} }

ArticleOrder == << A1, A2, A3, A4, A5 >>
\* getArticles({}): every stored article, in pub_date order
getArticles(S) == SelectSeq(ArticleOrder, LAMBDA a : a \in S)

DayOf(t) == t \div 24
Days == 0..DayOf(MaxTime)

Requests == 1..MaxReq

IdleReq == [pc |-> "idle", cat |-> "all", arts |-> << >>, ins |-> None,
            at |-> 0, resp |-> None]
IdleTask == [pc |-> "idle", arts |-> << >>, ins |-> None, at |-> 0]
Status400 == [status |-> 400]
Status500 == [status |-> 500]

\* an InsightSet as one generateInsights call returned it; gen numbers the call
Insight(g, set) == [gen |-> g, set |-> set]

\* the InsightSet as the cache tiers keep it: with its category and the time
\* it was saved
Saved(ins, cat, t) ==
  [gen |-> ins.gen, set |-> ins.set, category |-> cat, generatedAt |-> t]

\* ------------------------------------------------------------------------
\* Insight cache tiers (db.js)
\* ------------------------------------------------------------------------

\* rows of a category, as indexes into the archive
RowsOf(cat) == { i \in 1..Len(archive) : archive[i].category = cat }

Last(S) == CHOOSE i \in S : \A j \in S : j <= i

\* (a 24-hour TTL in place of the calendar day)
getTodaysInsights_Ttl24(cat) ==
  LET e == insightsCache[cat]
      fresh == { i \in RowsOf(cat) : now - archive[i].generatedAt < 24 }
  IN IF e # None /\ now - e.generatedAt < 24 THEN e
     ELSE IF fresh # {} THEN archive[Last(fresh)]
     ELSE None

\* getTodaysInsights(category): the record served, None for null
\* (a failed archive read is logged and gives no record)
getTodaysInsights(cat) ==
  LET e == insightsCache[cat]
      today == IF dbUp
               THEN { i \in RowsOf(cat) :
                        DayOf(archive[i].generatedAt) = DayOf(now) }
               ELSE {}
  IN IF e # None /\ DayOf(e.generatedAt) = DayOf(now) THEN e
     ELSE IF today # {} THEN archive[Last(today)]
     ELSE None

\* (one archived record per category and calendar day)
RecentlyArchived_SameDay(cat) ==
  /\ RowsOf(cat) # {}
  /\ DayOf(archive[Last(RowsOf(cat))].generatedAt) = DayOf(now)

\* the most recent archived record of the category is at most an hour old
RecentlyArchived(cat) ==
  /\ RowsOf(cat) # {}
  /\ now - archive[Last(RowsOf(cat))].generatedAt <= DedupHours

\* (no dedup: every call archives)
saveInsights_NoDedup(ins, cat) ==
  /\ insightsCache' = [insightsCache EXCEPT ![cat] = Saved(ins, cat, now)]
  /\ archive' = Append(archive,
                       [id |-> Len(archive) + 1, gen |-> ins.gen,
                        set |-> ins.set, category |-> cat,
                        generatedAt |-> now])
  /\ lastSave' = [lastSave EXCEPT ![cat] =
                    [gen |-> ins.gen, at |-> now, archived |-> TRUE]]

\* (a deduplicated call returns before the in-memory tier is written)
saveInsights_SkipAll(ins, cat) ==
  /\ insightsCache' = IF RecentlyArchived(cat) THEN insightsCache
                      ELSE [insightsCache EXCEPT ![cat] = Saved(ins, cat, now)]
  /\ archive' = IF RecentlyArchived(cat) THEN archive
                ELSE Append(archive,
                            [id |-> Len(archive) + 1, gen |-> ins.gen,
                             set |-> ins.set, category |-> cat,
                             generatedAt |-> now])
  /\ lastSave' = [lastSave EXCEPT ![cat] =
                    [gen |-> ins.gen, at |-> now,
                     archived |-> ~RecentlyArchived(cat)]]

\* saveInsights(insights, category, ...): in-memory tier always, archive
\* unless deduplicated; a failure of the store is logged and nothing is
\* archived
saveInsights(ins, cat) ==
  /\ insightsCache' = [insightsCache EXCEPT ![cat] = Saved(ins, cat, now)]
  /\ archive' = IF ~dbUp \/ RecentlyArchived(cat) THEN archive
                ELSE Append(archive,
                            [id |-> Len(archive) + 1, gen |-> ins.gen,
                             set |-> ins.set, category |-> cat,
                             generatedAt |-> now])
  /\ lastSave' = [lastSave EXCEPT ![cat] =
                    [gen |-> ins.gen, at |-> now,
                     archived |-> dbUp /\ ~RecentlyArchived(cat)]]

\* (a failure of the store leaves saveInsights as an exception)
saveInsightsRejects_StoreDown == ~dbUp

\* the promise of saveInsights rejects: never, failures are caught inside
saveInsightsRejects == FALSE

EmptyCache == [c \in CacheKeys |-> None]

\* clearInsights(): the in-memory tier only
clearInsights ==
  insightsCache' = EmptyCache

PipelineResponses ==
  { RespNonJson,
    RespJson(<< [name |-> << "Market", "Trends" >>,
                 insights |-> << [articleIds |-> << 0 >>] >>] >>) }

\* a generateInsights call for a category: does it reach the model call
CallsModel(arts) == generateInsightsSync(Arg(arts), apiKey) = None

CountCall(cat, arts) ==
  IF CallsModel(arts)
  THEN [llmCalls EXCEPT ![cat][DayOf(now)] = @ + 1]
  ELSE llmCalls

\* ------------------------------------------------------------------------
\* POST /api/insights (index.js)
\* ------------------------------------------------------------------------

\* request body read; 400 unless articles is an array; getTodaysInsights called
\* (handler slots are taken lowest first)
PostInsightsBegin(r, cats, lists) ==
  /\ req[r].pc \in {"idle", "done"}
  /\ \A q \in 1..(r - 1) : req[q].pc \notin {"idle", "done"}
  /\ \E cat \in cats, arts \in lists :
       req' = [req EXCEPT ![r] =
                 IF arts = NotArray
                 THEN [IdleReq EXCEPT !.pc = "done", !.resp = Status400]
                 ELSE [IdleReq EXCEPT !.pc = "check", !.cat = cat,
                                      !.arts = arts]]
  /\ UNCHANGED << now, apiKey, dbUp, insightsCache, archive, stored, genCount,
                  llmCalls, lastSave, refreshPc, sched, task, genVars, storeVars, otherVars >>

\* res.json(insights) after the awaited saveInsights; the catch block answers
\* 500 when it rejected
Respond(insights) == IF saveInsightsRejects THEN Status500 ELSE insights

\* (the cached record is never used)
CacheHit_Never(todaysInsights) == FALSE

\* if (todaysInsights)
CacheHit(todaysInsights) == todaysInsights # None

\* getTodaysInsights settles: respond with the hit, or call generateInsights;
\* a result that needs no model call is saved and sent in the same turn
PostInsightsCheck(r, limit) ==
  /\ req[r].pc = "check"
  /\ LET todaysInsights == getTodaysInsights(req[r].cat)
         sync == generateInsightsSync(Arg(req[r].arts), apiKey)
         insights == Insight(genCount + 1, sync)
     IN IF CacheHit(todaysInsights)
        THEN /\ req' = [req EXCEPT ![r] =
                          [IdleReq EXCEPT !.pc = "done",
                                          !.resp = todaysInsights]]
             /\ UNCHANGED << genCount, llmCalls, insightsCache, archive,
                             lastSave >>
        ELSE /\ genCount < limit
             /\ genCount' = genCount + 1
             /\ llmCalls' = CountCall(req[r].cat, req[r].arts)
             /\ IF sync = None
                THEN /\ req' = [req EXCEPT ![r].pc = "llm",
                                           ![r].ins = insights,
                                           ![r].at = now]
                     /\ UNCHANGED << insightsCache, archive, lastSave >>
                ELSE IF sync = Thrown
                THEN /\ req' = [req EXCEPT ![r] =
                                  [IdleReq EXCEPT !.pc = "done",
                                                  !.resp = Status500]]
                     /\ UNCHANGED << insightsCache, archive, lastSave >>
                ELSE /\ saveInsights(insights, req[r].cat)
                     /\ req' = [req EXCEPT ![r] =
                                  [IdleReq EXCEPT !.pc = "done",
                                                  !.resp = Respond(insights)]]
  /\ UNCHANGED << now, apiKey, dbUp, stored, refreshPc, sched, task, genVars, storeVars, otherVars >>

\* (the generated insights are sent without being saved)
PostInsightsLLM_NoSave(r) ==
  /\ req[r].pc = "llm"
  /\ \E resp \in PipelineResponses :
       LET insights == Insight(req[r].ins.gen,
                               generateInsightsAfter(req[r].arts, resp))
       IN req' = [req EXCEPT ![r] =
                    [IdleReq EXCEPT !.pc = "done", !.resp = insights]]
  /\ UNCHANGED << now, apiKey, dbUp, insightsCache, archive, stored, genCount,
                  llmCalls, lastSave, refreshPc, sched, task, genVars, storeVars, otherVars >>

\* the model call settles: generateInsights returns, saveInsights(insights,
\* category, ...), res.json(insights)
PostInsightsLLM(r) ==
  /\ req[r].pc = "llm"
  /\ \E resp \in PipelineResponses :
       LET insights == Insight(req[r].ins.gen,
                               generateInsightsAfter(req[r].arts, resp))
       IN IF insights.set = Thrown
          THEN /\ req' = [req EXCEPT ![r] =
                            [IdleReq EXCEPT !.pc = "done",
                                            !.resp = Status500]]
               /\ UNCHANGED << insightsCache, archive, lastSave >>
          ELSE /\ saveInsights(insights, req[r].cat)
               /\ req' = [req EXCEPT ![r] =
                            [IdleReq EXCEPT !.pc = "done",
                                            !.resp = Respond(insights)]]
  /\ UNCHANGED << now, apiKey, dbUp, stored, genCount, llmCalls, refreshPc, sched,
                  task, genVars, storeVars, otherVars >>

\* ------------------------------------------------------------------------
\* POST /api/refresh (index.js)
\* ------------------------------------------------------------------------
\* (the feeds are fetched before the insights are cleared)
RefreshBegin_FetchFirst ==
  /\ refreshPc = "idle"
  /\ \E batch \in FeedBatches : stored' = stored \cup batch
  /\ refreshPc' = "fetching"
  /\ UNCHANGED << now, apiKey, dbUp, insightsCache, archive, genCount, llmCalls,
                  lastSave, req, sched, task, genVars, storeVars, otherVars >>

\* clearInsights() is called, then fetchAllFeeds()
RefreshBegin ==
  /\ refreshPc = "idle"
  /\ clearInsights
  /\ refreshPc' = "fetching"
  /\ UNCHANGED << now, apiKey, dbUp, archive, stored, genCount, llmCalls, lastSave,
                  req, sched, task, genVars, storeVars, otherVars >>

RefreshFetch ==
  /\ refreshPc = "fetching"
  /\ \E batch \in FeedBatches :
       stored' = IF dbUp THEN stored \cup batch ELSE stored
  /\ refreshPc' = "idle"
  /\ UNCHANGED << now, apiKey, dbUp, insightsCache, archive, genCount, llmCalls,
                  lastSave, req, sched, task, genVars, storeVars, otherVars >>

\* ------------------------------------------------------------------------
\* scheduler.js
\* ------------------------------------------------------------------------
CatOrder == << "mortgage", "product-management", "competitor-intel" >>

\* fetchAndCacheContent up to the end of fetchAllFeeds (startup or cron)
SchedFetch ==
  /\ sched = "idle"
  /\ \E batch \in FeedBatches :
       stored' = IF dbUp THEN stored \cup batch ELSE stored
  /\ sched' = "fetched"
  /\ UNCHANGED << now, apiKey, dbUp, insightsCache, archive, genCount, llmCalls,
                  lastSave, req, refreshPc, task, genVars, storeVars, otherVars >>

\* (every category is given the whole article list)
categoryArticles_NoFilter(articles, c) == articles

\* generateCategoryInsights(articles, category): articles.filter(a =>
\* a.category === category)
categoryArticles(articles, c) == FilterCategory(articles, c)

RECURSIVE SaveAll(_, _, _, _)
\* the saveInsights calls of the categories in cs, in order, on the tiers st
SaveAll(cs, st, ins, t) ==
  IF cs = << >> THEN st
  ELSE LET c == Head(cs)
           rows == { i \in 1..Len(st.archive) : st.archive[i].category = c }
           recent == \/ ~dbUp
                     \/ /\ rows # {}
                        /\ t - st.archive[Last(rows)].generatedAt <= DedupHours
       IN SaveAll(Tail(cs),
            [cache |-> [st.cache EXCEPT ![c] = Saved(ins[c], c, t)],
             archive |-> IF recent THEN st.archive
                         ELSE Append(st.archive,
                                [id |-> Len(st.archive) + 1,
                                 gen |-> ins[c].gen, set |-> ins[c].set,
                                 category |-> c, generatedAt |-> t]),
             last |-> [st.last EXCEPT ![c] =
                         [gen |-> ins[c].gen, at |-> t,
                          archived |-> ~recent]]],
            ins, t)

\* getArticles({}) settles; the three generateCategoryInsights calls are made,
\* each running to its model call, or to its saveInsights when generateInsights
\* needs no model call
SchedStart(limit) ==
  /\ sched = "fetched"
  /\ LET articles == IF dbUp THEN getArticles(stored) ELSE << >>
         active == SelectSeq(CatOrder,
                     LAMBDA c : Len(categoryArticles(articles, c)) > 0)
         pos(c) == CHOOSE k \in 1..Len(active) : active[k] = c
         sync(c) == generateInsightsSync(Arg(categoryArticles(articles, c)),
                                         apiKey)
         insights == [c \in Categories |->
                        IF \E k \in 1..Len(active) : active[k] = c
                        THEN Insight(genCount + pos(c), sync(c)) ELSE None]
         direct == SelectSeq(active, LAMBDA c : sync(c) # None)
         after == SaveAll(direct,
                    [cache |-> insightsCache, archive |-> archive,
                     last |-> lastSave], insights, now)
     IN IF Len(articles) = 0
        THEN /\ sched' = "idle"
             /\ UNCHANGED << genCount, llmCalls, task, insightsCache, archive,
                             lastSave >>
        ELSE /\ genCount + Len(active) <= limit
             /\ genCount' = genCount + Len(active)
             /\ llmCalls' = [c \in CacheKeys |->
                               IF /\ \E k \in 1..Len(active) : active[k] = c
                                  /\ sync(c) = None
                               THEN [llmCalls[c] EXCEPT ![DayOf(now)] = @ + 1]
                               ELSE llmCalls[c]]
             /\ task' = [c \in Categories |->
                           IF \E k \in 1..Len(active) : active[k] = c
                           THEN [pc |-> IF sync(c) = None THEN "llm"
                                        ELSE "done",
                                 arts |-> categoryArticles(articles, c),
                                 ins |-> insights[c], at |-> now]
                           ELSE [IdleTask EXCEPT !.pc = "skipped"]]
             /\ insightsCache' = after.cache
             /\ archive' = after.archive
             /\ lastSave' = after.last
             /\ sched' = "running"
  /\ UNCHANGED << now, apiKey, dbUp, stored, req, refreshPc, genVars, storeVars, otherVars >>

\* the model call of one category settles: generateInsights returns,
\* saveInsights(insights, category)
TaskLLM(c) ==
  /\ task[c].pc = "llm"
  /\ \E resp \in PipelineResponses :
       LET insights == Insight(task[c].ins.gen,
                               generateInsightsAfter(task[c].arts, resp))
       IN /\ saveInsights(insights, c)
          /\ task' = [task EXCEPT ![c].pc = "done", ![c].ins = insights]
  /\ UNCHANGED << now, apiKey, dbUp, stored, genCount, llmCalls, req, refreshPc,
                  sched, genVars, storeVars, otherVars >>

\* Promise.all settles
SchedEnd ==
  /\ sched = "running"
  /\ \A c \in Categories : task[c].pc \in {"done", "skipped"}
  /\ sched' = "idle"
  /\ task' = [c \in Categories |-> IdleTask]
  /\ UNCHANGED << now, apiKey, dbUp, insightsCache, archive, stored, genCount,
                  llmCalls, lastSave, req, refreshPc, genVars, storeVars, otherVars >>

\* the clock reaches the next hour; a model call is a single bounded request,
\* far shorter than an hour, so none is outstanding over two such steps
Tick ==
  /\ now < MaxTime
  /\ \A r \in Requests : req[r].pc = "llm" => req[r].at = now
  /\ \A c \in Categories : task[c].pc = "llm" => task[c].at = now
  /\ now' = now + 1
  /\ UNCHANGED << apiKey, dbUp, insightsCache, archive, stored, genCount, llmCalls,
                  lastSave, req, refreshPc, sched, task, genVars, storeVars, otherVars >>

\* the parts of the process the pipeline does not touch, before any request
InitOther ==
  /\ rateLimitStore = [ip \in ClientIps |-> None]
  /\ rNow = 0
  /\ rAdvances = 0
  /\ rBursts = 0
  /\ rPassed = [ip \in ClientIps |-> << >>]
  /\ rLast = None
  /\ lConcurrency = 0
  /\ lActive = 0
  /\ lQueue = << >>
  /\ lFn = [i \in Fns |-> "new"]
  /\ lPromise = [i \in Fns |-> "none"]
  /\ lStarted = << >>
  /\ fPc = [i \in Fns |-> "parse"]
  /\ fAttempt = [i \in Fns |-> 1]
  /\ fParses = [i \in Fns |-> 0]
  /\ fFailed = [i \in Fns |-> 0]
  /\ fSucceeded = [i \in Fns |-> FALSE]
  /\ fSleeps = [i \in Fns |-> << >>]
  /\ fResult = [i \in Fns |-> None]
  /\ fAll = None
  /\ dReq = [r \in DigestRequests |-> IdleDigest]

InitPipeline ==
  /\ now = StartHour
  /\ dbUp = TRUE
  /\ dbArticles = << >>
  /\ articleIds = << >>
  /\ sOps = 0
  /\ sCall = [op |-> "none"]
  /\ sRet = None
  /\ InitOther
  /\ insightsCache = EmptyCache
  /\ archive = << >>
  /\ stored = {}
  /\ genCount = 0
  /\ llmCalls = [c \in CacheKeys |-> [d \in Days |-> 0]]
  /\ lastSave = [c \in CacheKeys |-> [gen |-> 0, at |-> 0,
                                      archived |-> FALSE]]
  /\ req = [r \in Requests |-> IdleReq]
  /\ refreshPc = "idle"
  /\ sched = "idle"
  /\ task = [c \in Categories |-> IdleTask]

Init ==
  /\ InitPipeline
  /\ apiKey \in BOOLEAN
  /\ gArticles = Undefined
  /\ gPc = "off"
  /\ gCalls = 0
  /\ gResp = None
  /\ gResult = None

\* the API server, one POST /api/insights at a time
Next ==
  \/ PostInsightsBegin(1, ReqCategories, ReqArticleLists)
  \/ PostInsightsCheck(1, MaxGen)
  \/ PostInsightsLLM(1)
  \/ RefreshBegin
  \/ RefreshFetch
  \/ Tick

Spec == Init /\ [][Next]_vars

\* concurrent POST /api/insights handlers
NextRace ==
  \/ \E r \in Requests : PostInsightsBegin(r, {"mortgage"}, ArrayLists)
  \/ \E r \in Requests : PostInsightsCheck(r, MaxGen)
  \/ \E r \in Requests : PostInsightsLLM(r)
  \/ Tick

SpecRace == Init /\ [][NextRace]_vars

\* two clients of one category: the first sends one article, the second an
\* empty list
NextKey ==
  \/ PostInsightsBegin(1, {"mortgage"}, {<< A1 >>})
  \/ PostInsightsBegin(2, {"mortgage"}, {<< >>})
  \/ \E r \in Requests : PostInsightsCheck(r, MaxGen)
  \/ \E r \in Requests : PostInsightsLLM(r)
  \/ Tick

SpecKey == Init /\ [][NextKey]_vars

\* the scheduler next to one POST /api/insights handler
NextSched ==
  \/ PostInsightsBegin(1, {"mortgage"}, {<< A1 >>})
  \/ PostInsightsCheck(1, MaxSchedGen)
  \/ PostInsightsLLM(1)
  \/ SchedFetch
  \/ SchedStart(MaxSchedGen)
  \/ \E c \in Categories : TaskLLM(c)
  \/ SchedEnd
  \/ Tick

SpecSched == Init /\ [][NextSched]_vars

\* the persistent store stops answering, and answers again
StoreDown ==
  /\ dbUp
  /\ dbUp' = FALSE
  /\ UNCHANGED << now, apiKey, insightsCache, archive, stored, genCount,
                  llmCalls, lastSave, req, refreshPc, sched, task, genVars, storeVars, otherVars >>

StoreUp ==
  /\ ~dbUp
  /\ dbUp' = TRUE
  /\ UNCHANGED << now, apiKey, insightsCache, archive, stored, genCount,
                  llmCalls, lastSave, req, refreshPc, sched, task, genVars, storeVars, otherVars >>

\* POST /api/insights and the scheduler while the store may fail
NextFail ==
  \/ PostInsightsBegin(1, {"mortgage"}, {<< A1 >>})
  \/ PostInsightsCheck(1, MaxGen)
  \/ PostInsightsLLM(1)
  \/ SchedFetch
  \/ SchedStart(MaxGen)
  \/ \E c \in Categories : TaskLLM(c)
  \/ SchedEnd
  \/ StoreDown
  \/ StoreUp
  \/ Tick

SpecFail == Init /\ [][NextFail]_vars

\* POST /api/insights with recognized and unrecognized category values
NextBoundary ==
  \/ PostInsightsBegin(1, {UnknownCategory, "all"}, ArrayLists)
  \/ PostInsightsCheck(1, MaxGen)
  \/ PostInsightsLLM(1)
  \/ Tick

SpecBoundary == Init /\ [][NextBoundary]_vars

\* ------------------------------------------------------------------------
\* The cache tiers under every order of their operations
\* ------------------------------------------------------------------------
CacheSave(cat) ==
  /\ genCount < MaxSaves
  /\ genCount' = genCount + 1
  /\ saveInsights(Insight(genCount + 1, getFallbackInsights(<< A1 >>)), cat)
  /\ UNCHANGED << now, apiKey, dbUp, stored, llmCalls, req, refreshPc, sched, task,
                  genVars, storeVars, otherVars >>

CacheClear ==
  /\ clearInsights
  /\ UNCHANGED << now, apiKey, dbUp, archive, stored, genCount, llmCalls, lastSave,
                  req, refreshPc, sched, task, genVars, storeVars, otherVars >>

NextCache ==
  \/ \E cat \in ReqCategories : CacheSave(cat)
  \/ CacheClear
  \/ Tick

SpecCache == Init /\ [][NextCache]_vars

\* ------------------------------------------------------------------------
\* generateInsights called on its own
\* ------------------------------------------------------------------------
GenCall ==
  /\ gPc = "start"
  /\ LET r == generateInsightsSync(gArticles, apiKey)
     IN IF r # None
        THEN /\ gResult' = r
             /\ gPc' = "returned"
             /\ gCalls' = gCalls
        ELSE /\ gResult' = gResult
             /\ gPc' = "llm"
             /\ gCalls' = gCalls + 1
  /\ UNCHANGED << apiKey, dbUp, gArticles, gResp, pipelineVars, storeVars, otherVars >>

\* (a call that did not give usable JSON is made again)
GenReturn_Retry ==
  /\ gPc = "llm"
  /\ \E resp \in LLMResponses :
       /\ gResp' = resp
       /\ IF resp.type = "json"
          THEN /\ gResult' = generateInsightsAfter(gArticles.list, resp)
               /\ gPc' = "returned"
          ELSE /\ gResult' = gResult
               /\ gPc' = "start"
  /\ UNCHANGED << apiKey, dbUp, gArticles, gCalls, pipelineVars, storeVars, otherVars >>

\* anthropic.messages.create settles; generateInsights runs to its return
GenReturn ==
  /\ gPc = "llm"
  /\ \E resp \in LLMResponses :
       /\ gResp' = resp
       /\ gResult' = generateInsightsAfter(gArticles.list, resp)
  /\ gPc' = "returned"
  /\ UNCHANGED << apiKey, dbUp, gArticles, gCalls, pipelineVars, storeVars, otherVars >>

InitGen ==
  /\ InitPipeline
  /\ apiKey \in BOOLEAN
  /\ gArticles \in GenArgs
  /\ gPc = "start"
  /\ gCalls = 0
  /\ gResp = None
  /\ gResult = None

NextGen == GenCall \/ GenReturn

SpecGen == InitGen /\ [][NextGen]_vars

\* ------------------------------------------------------------------------
\* The article store (src/server/db.js): saveArticle, getArticles,
\* cleanOldArticles on the module-level `articles` and `articleIds`
\* ------------------------------------------------------------------------

\* text is a sequence of characters; toLowerCase acts on each of them
LowerChar(ch) == IF ch = "A" THEN "a" ELSE IF ch = "B" THEN "b" ELSE ch

toLowerCase(text) == [i \in 1..Len(text) |-> LowerChar(text[i])]

\* String.prototype.includes
includes(text, part) ==
  \E i \in 0..(Len(text) - Len(part)) :
    \A j \in 1..Len(part) : text[i + j] = part[j]

\* a text one character longer than the store keeps; only its last character
\* is a "B"
LongText == [i \in 1..(ContentLimit + 1) |->
               IF i <= ContentLimit THEN "a" ELSE "B"]

\* publication instants, in hours, relative to the clock of the process
PubOld == StartHour - (RetentionDays + 1) * 24
PubKept == StartHour - (RetentionDays - 1) * 24
PubEdge == StartHour - RetentionDays * 24
PubRecent == StartHour - 1

\* articles as the feed fetcher hands them to saveArticle: the summary is the
\* summariser's text of any length, originalContent the first 500 characters
N1 == [link |-> "l1", title |-> << "A", "b" >>, summary |-> << "a" >>,
       originalContent |-> << "a" >>, pubDate |-> PubRecent,
       source |-> "HousingWire", category |-> "mortgage"]
N2 == [link |-> "l1", title |-> << "b", "a" >>, summary |-> LongText,
       originalContent |-> Take(LongText, ContentLimit), pubDate |-> PubRecent,
       source |-> "HousingWire", category |-> "mortgage"]
N3 == [link |-> "l3", title |-> << "b", "a" >>, summary |-> << "B" >>,
       originalContent |-> << "B" >>, pubDate |-> PubOld,
       source |-> "Rocket Mortgage", category |-> "competitor-intel"]
N4 == [link |-> "l2", title |-> << "A", "b" >>, summary |-> << "B" >>,
       originalContent |-> << "B" >>, pubDate |-> PubKept,
       source |-> "Redfin News", category |-> "mortgage"]

N5 == [link |-> "l2", title |-> << "A", "b" >>, summary |-> << "B" >>,
       originalContent |-> << "B" >>, pubDate |-> PubEdge,
       source |-> "Redfin News", category |-> "mortgage"]

StoreInputs == {N1, N2, N3, N4, N5}

\* the items of the feeds over the retention period: one more than ResultCap,
\* each with a link of its own
FeedSize == ResultCap + 1

FeedArticle(i) ==
  [link |-> "f" \o ToString(i), title |-> << "b" >>, summary |-> << "a" >>,
   originalContent |-> << "a" >>, pubDate |-> PubRecent - (i % 2),
   source |-> "HousingWire", category |-> "mortgage"]

Feed == [i \in 1..FeedSize |-> FeedArticle(i)]

\* the category the feed configuration gives the article of a link
CategoryOfLink(link) ==
  (CHOOSE a \in StoreInputs \cup {Feed[i] : i \in 1..FeedSize} :
     a.link = link).category

\* an optional field of the filters object
Absent == [some |-> FALSE]
Some(v) == [some |-> TRUE, v |-> v]

Filters ==
  [source : {Absent, Some("HousingWire")},
   category : {Absent, Some("mortgage")},
   startDate : {Absent, Some(DayOf(PubKept))},
   endDate : {Absent, Some(DayOf(PubKept))},
   keyword : {Absent, Some(<< "a", "B" >>)}]

\* (the record of a link is added again instead of replaced)
saveArticle_Append(article) ==
  LET articleData ==
        [title |-> article.title, link |-> article.link,
         pubDate |-> article.pubDate, source |-> article.source,
         summary |-> Take(article.summary, ContentLimit),
         originalContent |-> Take(article.originalContent, ContentLimit)]
  IN [articles |-> [k \in DOMAIN dbArticles \cup {article.link} |->
                      IF k = article.link THEN articleData ELSE dbArticles[k]],
      articleIds |-> Append(articleIds, article.link),
      returned |-> articleData]

\* saveArticle(article): the record is keyed by the link; summary and
\* originalContent are cut to ContentLimit characters; category is not kept
saveArticle(article) ==
  LET articleId == article.link
      articleData ==
        [title |-> article.title, link |-> article.link,
         pubDate |-> article.pubDate, source |-> article.source,
         summary |-> Take(article.summary, ContentLimit),
         originalContent |-> Take(article.originalContent, ContentLimit)]
  IN [articles |-> [k \in DOMAIN dbArticles \cup {articleId} |->
                      IF k = articleId THEN articleData ELSE dbArticles[k]],
      articleIds |-> IF \E i \in 1..Len(articleIds) : articleIds[i] = articleId
                       THEN articleIds
                       ELSE Append(articleIds, articleId),
      returned |-> articleData]

\* Object.values(articles): the stored records in order of insertion
articleList == [i \in 1..Len(articleIds) |-> dbArticles[articleIds[i]]]

\* Array.prototype.sort with (a, b) => b.pubDate - a.pubDate: stable, newest
\* first (the articles of each instant keep their order, instants descend)
RECURSIVE NewestFirstFrom(_, _)
NewestFirstFrom(s, dates) ==
  IF dates = {} THEN << >>
  ELSE LET newest == CHOOSE d \in dates : \A e \in dates : e <= d
       IN SelectSeq(s, LAMBDA a : a.pubDate = newest)
            \o NewestFirstFrom(s, dates \ {newest})

SortNewestFirst(s) == NewestFirstFrom(s, {s[i].pubDate : i \in 1..Len(s)})

\* the keyword filter of getArticles
KeywordMatches(a, kw) ==
  LET keyword == toLowerCase(kw)
  IN \/ includes(toLowerCase(a.title), keyword)
     \/ (a.summary # << >> /\ includes(toLowerCase(a.summary), keyword))

\* getArticles(filters): source, startDate, endDate and keyword are applied
\* when given; filters.category is never read
getArticlesFiltered(filters) ==
  LET bySource ==
        IF filters.source.some
          THEN SelectSeq(articleList, LAMBDA a : a.source = filters.source.v)
          ELSE articleList
      byStart ==
        IF filters.startDate.some
          THEN SelectSeq(bySource,
                 LAMBDA a : a.pubDate >= filters.startDate.v * 24)
          ELSE bySource
      byEnd ==
        IF filters.endDate.some
          THEN SelectSeq(byStart,
                 LAMBDA a : a.pubDate <= filters.endDate.v * 24 + 23)
          ELSE byStart
      byKeyword ==
        IF filters.keyword.some
          THEN SelectSeq(byEnd,
                 LAMBDA a : KeywordMatches(a, filters.keyword.v))
          ELSE byEnd
  IN SortNewestFirst(byKeyword)

\* (an article published exactly 90 days ago is deleted too)
cleanOldArticles_Inclusive ==
  LET ninetyDaysAgo == now - RetentionDays * 24
      keysToDelete == {k \in DOMAIN dbArticles :
                         dbArticles[k].pubDate <= ninetyDaysAgo}
  IN [articles |-> [k \in DOMAIN dbArticles \ keysToDelete |-> dbArticles[k]],
      articleIds |-> SelectSeq(articleIds, LAMBDA id : id \notin keysToDelete),
      returned |-> [removed |-> Cardinality(keysToDelete)]]

\* cleanOldArticles(): the records published before now - 90 days are deleted
cleanOldArticles ==
  LET ninetyDaysAgo == now - RetentionDays * 24
      keysToDelete == {k \in DOMAIN dbArticles :
                         dbArticles[k].pubDate < ninetyDaysAgo}
  IN [articles |-> [k \in DOMAIN dbArticles \ keysToDelete |-> dbArticles[k]],
      articleIds |-> SelectSeq(articleIds, LAMBDA id : id \notin keysToDelete),
      returned |-> [removed |-> Cardinality(keysToDelete)]]

StoreSave ==
  /\ sOps < MaxStoreOps
  /\ \E article \in StoreInputs :
       LET r == saveArticle(article)
       IN /\ dbArticles' = r.articles
          /\ articleIds' = r.articleIds
          /\ sCall' = [op |-> "saveArticle", arg |-> article]
          /\ sRet' = r.returned
  /\ sOps' = sOps + 1
  /\ UNCHANGED << apiKey, dbUp, pipelineVars, genVars, otherVars >>

\* fetchAllFeeds on the empty store: saveArticle is awaited for every item of
\* the feeds
StoreFetch ==
  /\ sOps = 0
  /\ LET links == {Feed[i].link : i \in 1..FeedSize}
         item(k) == Feed[CHOOSE i \in 1..FeedSize : Feed[i].link = k]
     IN /\ dbArticles' = [k \in DOMAIN dbArticles \cup links |->
                            IF k \in links THEN saveArticle(item(k)).returned
                                           ELSE dbArticles[k]]
        /\ articleIds' = articleIds \o
                           SelectSeq([i \in 1..FeedSize |-> Feed[i].link],
                             LAMBDA id : id \notin DOMAIN dbArticles)
  /\ sCall' = [op |-> "fetchAllFeeds"]
  /\ sRet' = [saved |-> FeedSize]
  /\ sOps' = sOps + FeedSize
  /\ UNCHANGED << apiKey, dbUp, pipelineVars, genVars, otherVars >>

StoreClean ==
  /\ sOps < MaxStoreOps
  /\ LET r == cleanOldArticles
     IN /\ dbArticles' = r.articles
        /\ articleIds' = r.articleIds
        /\ sRet' = r.returned
  /\ sCall' = [op |-> "cleanOldArticles"]
  /\ sOps' = sOps + 1
  /\ UNCHANGED << apiKey, dbUp, pipelineVars, genVars, otherVars >>

StoreQuery ==
  /\ \E filters \in Filters :
       /\ sCall' = [op |-> "getArticles", arg |-> filters]
       /\ sRet' = getArticlesFiltered(filters)
  /\ UNCHANGED << apiKey, dbUp, pipelineVars, genVars, dbArticles, articleIds,
                  sOps, otherVars >>

InitStore ==
  /\ InitPipeline
  /\ apiKey = TRUE
  /\ gArticles = << >>
  /\ gPc = "start"
  /\ gCalls = 0
  /\ gResp = None
  /\ gResult = None

NextStore == StoreSave \/ StoreFetch \/ StoreClean \/ StoreQuery

SpecStore == InitStore /\ [][NextStore]_vars

\* ------------------------------------------------------------------------
\* The rate limiting middleware (part_002:139-181)
\* ------------------------------------------------------------------------

\* requests of one client that arrive at the same instant
BurstSizes == {1, RATE_LIMIT_MAX_REQUESTS}

\* the clock moves by two seconds or by a second less than the window
ClockSteps == {2000, RATE_LIMIT_WINDOW_MS - 1000}

\* rateLimit(req, res, next) for the record of req.ip at Date.now() = t: the
\* record afterwards, and whether next() was called (otherwise 429 was sent)
rateLimit(record, t) ==
  IF record = None
  THEN [record |-> [count |-> 1, windowStart |-> t], passed |-> TRUE]
  ELSE IF t - record.windowStart > RATE_LIMIT_WINDOW_MS
  THEN [record |-> [count |-> 1, windowStart |-> t], passed |-> TRUE]
  ELSE [record |-> [record EXCEPT !.count = @ + 1],
        passed |-> record.count + 1 <= RATE_LIMIT_MAX_REQUESTS]

\* n >= 1 requests of one ip handled one after another at instant t: the
\* record afterwards and the number of requests passed to next().  After the
\* first request the window cannot expire at the same instant, so the k-th
\* request finds the record the first one left with k - 2 more counted
HandleBurst(record, t, n) ==
  LET first == rateLimit(record, t)
      kth(k) == IF k = 1 THEN first
                ELSE rateLimit([first.record EXCEPT !.count = @ + (k - 2)], t)
  IN [record |-> kth(n).record,
      passed |-> Cardinality({k \in 1..n : kth(k).passed})]

RateBurst ==
  /\ rBursts < MaxBursts
  /\ \E ip \in ClientIps, n \in BurstSizes :
       LET r == HandleBurst(rateLimitStore[ip], rNow, n)
       IN /\ rateLimitStore' = [rateLimitStore EXCEPT ![ip] = r.record]
          /\ rPassed' = [rPassed EXCEPT
                           ![ip] = Append(@, [at |-> rNow, n |-> r.passed])]
          /\ rLast' = [ip |-> ip, n |-> n, passed |-> r.passed,
                       status429 |-> n - r.passed]
  /\ rBursts' = rBursts + 1
  /\ UNCHANGED << rNow, rAdvances, appVars, limVars, feedVars, dReq >>

\* the setInterval callback: records whose window began more than two windows
\* ago are deleted
RateCleanup ==
  /\ \E ip \in ClientIps :
       /\ rateLimitStore[ip] # None
       /\ rNow - rateLimitStore[ip].windowStart > RATE_LIMIT_WINDOW_MS * 2
  /\ rateLimitStore' =
       [ip \in ClientIps |->
          IF /\ rateLimitStore[ip] # None
             /\ rNow - rateLimitStore[ip].windowStart
                  > RATE_LIMIT_WINDOW_MS * 2
          THEN None ELSE rateLimitStore[ip]]
  /\ UNCHANGED << rNow, rAdvances, rBursts, rPassed, rLast, appVars,
                  limVars, feedVars, dReq >>

RateAdvance ==
  /\ rAdvances < MaxAdvances
  /\ \E d \in ClockSteps : rNow' = rNow + d
  /\ rAdvances' = rAdvances + 1
  /\ UNCHANGED << rateLimitStore, rBursts, rPassed, rLast, appVars, limVars, feedVars, dReq >>

NextRate == RateBurst \/ RateCleanup \/ RateAdvance

SpecRate == InitStore /\ [][NextRate]_vars

\* ------------------------------------------------------------------------
\* The concurrency limiter (part_005:24-49)
\* ------------------------------------------------------------------------

\* concurrency of the limiters the model creates; fetchAllFeeds uses the last
Concurrencies == {1, 2, FeedConcurrency}

\* (runNext starts the head of the queue whatever active is)
runNext_NoLimit(active, queue) ==
  IF Len(queue) = 0
  THEN [active |-> active, queue |-> queue, started |-> 0]
  ELSE [active |-> active + 1, queue |-> Tail(queue), started |-> Head(queue)]

\* runNext(): nothing when the queue is empty or active >= concurrency;
\* otherwise active++, the head of the queue is taken and its fn() called
runNext(active, queue) ==
  IF Len(queue) = 0 \/ active >= lConcurrency
  THEN [active |-> active, queue |-> queue, started |-> 0]
  ELSE [active |-> active + 1, queue |-> Tail(queue), started |-> Head(queue)]

\* (the finally callback only counts down)
AfterFinally_NoRunNext(active, queue) ==
  [active |-> active - 1, queue |-> queue, started |-> 0]

\* the finally callback: active--, runNext()
AfterFinally(active, queue) == runNext(active - 1, queue)

\* the state of the limiter after a runNext that gave r
Ran(r, fns) ==
  /\ lActive' = r.active
  /\ lQueue' = r.queue
  /\ lFn' = IF r.started = 0 THEN fns
            ELSE [fns EXCEPT ![r.started] = "running"]
  /\ lStarted' = IF r.started = 0 THEN lStarted
                 ELSE Append(lStarted, r.started)

\* createLimiter(concurrency)
LimCreate ==
  /\ lConcurrency = 0
  /\ lConcurrency' \in Concurrencies
  /\ UNCHANGED << lActive, lQueue, lFn, lPromise, lStarted, appVars,
                  rateVars, feedVars, dReq >>

\* limit(fn): the next function is pushed on the queue, runNext() is called
\* and a pending promise is returned (at most `limit` functions are submitted)
LimSubmit(limit) ==
  \E i \in 1..limit :
    /\ lConcurrency > 0
    /\ lFn[i] = "new"
    /\ \A j \in 1..(i - 1) : lFn[j] # "new"
    /\ Ran(runNext(lActive, Append(lQueue, i)), [lFn EXCEPT ![i] = "queued"])
    /\ lPromise' = [lPromise EXCEPT ![i] = "pending"]
    /\ UNCHANGED << lConcurrency, appVars, rateVars, feedVars, dReq >>

\* the promise of the running fn() of function i settles
LimSettleOf(i) ==
  \E outcome \in {"resolved", "rejected"} :
    /\ lFn[i] = "running"
    /\ lFn' = [lFn EXCEPT ![i] = outcome]
    /\ UNCHANGED << lConcurrency, lActive, lQueue, lPromise, lStarted,
                    appVars, rateVars, feedVars, dReq >>

LimSettle == \E i \in Fns : LimSettleOf(i)

\* the reactions to a settled fn(): .then(resolve).catch(reject) settles the
\* promise of the limiter, then .finally counts down and calls runNext()
LimReactOf(i) ==
  /\ lFn[i] \in {"resolved", "rejected"}
  /\ lPromise' = [lPromise EXCEPT ![i] = lFn[i]]
  /\ Ran(AfterFinally(lActive, lQueue), [lFn EXCEPT ![i] = "done"])
  /\ UNCHANGED << lConcurrency, appVars, rateVars, feedVars, dReq >>

LimReact == \E i \in Fns : LimReactOf(i)

InitLim ==
  /\ InitPipeline
  /\ apiKey = TRUE
  /\ gArticles = << >>
  /\ gPc = "start"
  /\ gCalls = 0
  /\ gResp = None
  /\ gResult = None

NextLim == LimCreate \/ LimSubmit(MaxFns) \/ LimSettle \/ LimReact

NextLimLive == LimCreate \/ LimSubmit(MaxLiveFns) \/ LimSettle \/ LimReact

SpecLim == InitLim /\ [][NextLim]_vars

\* every started function eventually settles, and the reactions to a settled
\* promise are run by the event loop
SpecLimLive ==
  /\ InitLim
  /\ [][NextLimLive]_vars
  /\ \A i \in 1..MaxLiveFns : WF_vars(LimSettleOf(i)) /\ WF_vars(LimReactOf(i))

\* ------------------------------------------------------------------------
\* fetchRSS and fetchAllFeeds (part_005:174-262)
\* ------------------------------------------------------------------------
Sources == 1..MaxSources

\* the articles fetchRSS builds from the feed of source i
ArticlesOf(i) == << [source |-> i] >>

\* (the last error is thrown once the attempts are used up)
Exhausted_Rejects == Thrown

\* after the loop: return []
Exhausted == << >>

\* one pass of the for loop in the fetchRSS of source i: parser.parseURL
\* settles; on success the articles are returned, on failure the function
\* sleeps 2^(attempt - 1) seconds when attempt < maxRetries and otherwise
\* leaves the loop
FetchAttempt(i) ==
  /\ lFn[i] = "running"
  /\ fPc[i] = "parse"
  /\ fParses' = [fParses EXCEPT ![i] = @ + 1]
  /\ \E ok \in BOOLEAN :
       IF ok
       THEN /\ fSucceeded' = [fSucceeded EXCEPT ![i] = TRUE]
            /\ fResult' = [fResult EXCEPT ![i] = ArticlesOf(i)]
            /\ fPc' = [fPc EXCEPT ![i] = "returned"]
            /\ lFn' = [lFn EXCEPT ![i] = "resolved"]
            /\ UNCHANGED << fFailed, fSleeps >>
       ELSE /\ fFailed' = [fFailed EXCEPT ![i] = @ + 1]
            /\ IF fAttempt[i] < maxRetries
               THEN /\ fSleeps' = [fSleeps EXCEPT
                                     ![i] = Append(@, 2 ^ (fAttempt[i] - 1)
                                                        * 1000)]
                    /\ fPc' = [fPc EXCEPT ![i] = "sleep"]
                    /\ UNCHANGED << fResult, lFn >>
               ELSE /\ fResult' = [fResult EXCEPT ![i] = Exhausted]
                    /\ fPc' = [fPc EXCEPT ![i] = "returned"]
                    /\ lFn' = [lFn EXCEPT
                                 ![i] = IF Exhausted = Thrown
                                          THEN "rejected" ELSE "resolved"]
                    /\ UNCHANGED fSleeps
            /\ UNCHANGED fSucceeded
  /\ UNCHANGED << fAttempt, fAll, lConcurrency, lActive, lQueue, lPromise,
                  lStarted, appVars, rateVars, dReq >>

\* sleep(delay) is over: attempt++ and the loop goes on
FetchWake(i) ==
  /\ fPc[i] = "sleep"
  /\ fAttempt' = [fAttempt EXCEPT ![i] = @ + 1]
  /\ fPc' = [fPc EXCEPT ![i] = "parse"]
  /\ UNCHANGED << fParses, fFailed, fSucceeded, fSleeps, fResult, fAll,
                  limVars, appVars, rateVars, dReq >>

RECURSIVE Flat(_, _)
\* results.flat(), for the results of the sources from i on
Flat(results, i) ==
  IF i > MaxSources THEN << >> ELSE results[i] \o Flat(results, i + 1)

\* Promise.all settles: rejected as soon as one promise is, resolved with all
\* results once every promise is; fetchAllFeeds returns results.flat()
FeedsSettle ==
  /\ fAll = None
  /\ \/ \E i \in Sources : lPromise[i] = "rejected"
     \/ \A i \in Sources : lPromise[i] = "resolved"
  /\ fAll' = IF \E i \in Sources : lPromise[i] = "rejected"
             THEN Thrown
             ELSE [articles |-> Flat(fResult, 1)]
  /\ UNCHANGED << fPc, fAttempt, fParses, fFailed, fSucceeded, fSleeps,
                  fResult, limVars, appVars, rateVars, dReq >>

NextFeeds ==
  \/ LimCreate
  \/ LimSubmit(MaxSources)
  \/ \E i \in Sources : FetchAttempt(i)
  \/ \E i \in Sources : FetchWake(i)
  \/ LimReact
  \/ FeedsSettle

SpecFeeds == InitLim /\ [][NextFeeds]_vars

\* ------------------------------------------------------------------------
\* GET /run-digest (src/server/index.js:12-38, part_003:13-61)
\* ------------------------------------------------------------------------

\* res.write / res.end on the response of request d: what it leaves behind
Write(d) ==
  [d EXCEPT !.writeAfterEnd = @ \/ d.ends > 0,
            !.usedAfterClose = @ \/ ~d.open]

End(d) == [d EXCEPT !.ends = @ + 1, !.usedAfterClose = @ \/ ~d.open]

\* the handler up to its await: 401 without the token; otherwise writeHead,
\* write('started'), the close and error listeners (part_003 only) and
\* setInterval.  tracked tells which of the two index.js serves the request
DigestBegin(r) ==
  /\ dReq[r].pc = "idle"
  /\ \E authorized \in BOOLEAN, tracked \in BOOLEAN :
       dReq' = [dReq EXCEPT ![r] =
                  IF authorized
                  THEN [Write(@) EXCEPT !.pc = "running",
                                        !.tracked = tracked,
                                        !.keepAlive = TRUE]
                  ELSE [@ EXCEPT !.pc = "unauthorized"]]
  /\ UNCHANGED << appVars, rateVars, limVars, feedVars >>

\* the keepAlive interval fires: safeWrite('.\n') in part_003, res.write('.\n')
\* in src/server/index.js
DigestKeepAlive(r) ==
  /\ dReq[r].keepAlive
  /\ dReq[r].ticks < MaxTicks
  /\ dReq' = [dReq EXCEPT ![r] =
                [(IF @.tracked /\ ~@.connectionOpen THEN @ ELSE Write(@))
                   EXCEPT !.ticks = @ + 1]]
  /\ UNCHANGED << appVars, rateVars, limVars, feedVars >>

\* the client goes away: 'close' is emitted on res
DigestClose(r) ==
  /\ dReq[r].pc \in {"running", "done"}
  /\ dReq[r].open
  /\ dReq' = [dReq EXCEPT ![r].open = FALSE,
                          ![r].connectionOpen = IF dReq[r].tracked
                                                  THEN FALSE ELSE @]
  /\ UNCHANGED << appVars, rateVars, limVars, feedVars >>

\* runDailyDigest settles, fulfilled or rejected: clearInterval, then res.end,
\* in part_003 only if connectionOpen
DigestSettle(r) ==
  /\ dReq[r].pc = "running"
  /\ dReq' = [dReq EXCEPT ![r] =
                [(IF @.tracked /\ ~@.connectionOpen THEN @ ELSE End(@))
                   EXCEPT !.pc = "done", !.keepAlive = FALSE]]
  /\ UNCHANGED << appVars, rateVars, limVars, feedVars >>

NextDigest ==
  \E r \in DigestRequests :
    DigestBegin(r) \/ DigestKeepAlive(r) \/ DigestClose(r) \/ DigestSettle(r)

SpecDigest == InitLim /\ [][NextDigest]_vars

\* ------------------------------------------------------------------------
\* Properties
\* ------------------------------------------------------------------------

\* C1: a POST /api/insights handler whose getTodaysInsights(category) returns a
\* record answers with exactly that record, and in that request no
\* generateInsights call, no model call and no saveInsights call is made
C1_CacheHitShortCircuit ==
  [][\A r \in Requests :
       (/\ req[r].pc = "check"
        /\ getTodaysInsights(req[r].cat) # None
        /\ req'[r] # req[r])
       => /\ req'[r].pc = "done"
          /\ req'[r].resp = getTodaysInsights(req[r].cat)
          /\ UNCHANGED << genCount, llmCalls, insightsCache, archive,
                          lastSave >>]_vars

\* a request was answered from the archive (in-memory tier cleared) with the
\* record of the only generation made
C1_Witness ==
  /\ req[1].pc = "done"
  /\ req[1].resp # None
  /\ "id" \in DOMAIN req[1].resp
  /\ req[1].resp.gen = 1
  /\ DayOf(req[1].resp.generatedAt) = DayOf(now)
  /\ genCount = 1

\* rows of a category archived on the current day
TodaysRows(cat) ==
  { i \in RowsOf(cat) : DayOf(archive[i].generatedAt) = DayOf(now) }

\* a step that is a saveInsights call for the category
IsSave(cat) == lastSave'[cat] # lastSave[cat]

\* archive rows added by the latest saveInsights call of the category and by
\* the call made in this step
AddedByTwo(cat) ==
  (IF lastSave[cat].archived THEN 1 ELSE 0) + (Len(archive') - Len(archive))

C7_OncePerDay ==
  \A c \in CacheKeys : \A d \in Days : llmCalls[c][d] <= 1

TaskSaved(c) == task[c].pc # "done" /\ task'[c].pc = "done"

C10_EmptyInput ==
  (/\ gPc # "start"
   /\ (~gArticles.defined \/ Len(gArticles.list) = 0))
  => /\ gPc = "returned"
     /\ gResult.success = FALSE
     /\ gResult.themes = << >>
     /\ gCalls = 0

\* generateInsights([]) has returned in a process without an API key
C10_Witness ==
  /\ gPc = "returned"
  /\ gArticles = Arg(<< >>)
  /\ ~apiKey
  /\ gResult = EmptyResult

\* C17 as stated: a POST /api/insights request with an unrecognized category
\* is rejected before getTodaysInsights, generateInsights and saveInsights, so
\* no request is past the check, no generation is counted and no cache entry
\* or archive row exists for such a category
C17_CategoryValidated ==
  /\ \A r \in Requests :
       req[r].pc \in {"check", "llm"} => isValidCategory(req[r].cat)
  /\ \A c \in CacheKeys :
       ~isValidCategory(c)
       => /\ insightsCache[c] = None
          /\ RowsOf(c) = {}
          /\ \A d \in Days : llmCalls[c][d] = 0

\* a generated InsightSet numbered g, as a caller receives it
IsGenerated(x, g) ==
  /\ x # Status500
  /\ "gen" \in DOMAIN x
  /\ x.gen = g
  /\ x.set # Thrown
  /\ "themes" \in DOMAIN x.set

SourcesOf(list) == { list[i].source : i \in 1..Len(list) }

NonEmptyInput == gArticles.defined /\ Len(gArticles.list) > 0

\* generateInsights has returned after a model call that settled with resp
ReturnedAfter(types) ==
  gPc = "returned" /\ gCalls = 1 /\ gResp.type \in types

\* one theme per distinct source, each with a single insight whose articles
\* all have that source
OneThemePerSource(themes, list) ==
  /\ Len(themes) = Cardinality(SourcesOf(list))
  /\ \A src \in SourcesOf(list) :
       \E t \in 1..Len(themes) : themes[t].name = << src, "Updates" >>
  /\ \A t \in 1..Len(themes) :
       /\ Len(themes[t].insights) = 1
       /\ Len(themes[t].insights[1].articles) > 0
       /\ \A a \in 1..Len(themes[t].insights[1].articles) :
            themes[t].insights[1].articles[a].source = themes[t].name[1]

\* C11 as stated: for every non-empty article list, a model response without
\* parseable JSON makes generateInsights return, not throw, a result with
\* fallback = true and one theme per distinct source, each with one insight of
\* articles of that source
C11_FallbackOnMalformed ==
  (ReturnedAfter({"nonjson"}) /\ NonEmptyInput)
  => /\ gResult # Thrown
     /\ gResult.success
     /\ gResult.fallback
     /\ OneThemePerSource(gResult.themes, gArticles.list)

\* C12 as stated: for every article list and every outcome of the model call
\* generateInsights resolves to a result with a themes array and a success
\* flag, and a failed call gives the fallback grouping
C12_NeverFails ==
  gPc = "returned"
  => /\ gResult # Thrown
     /\ {"themes", "success"} \subseteq DOMAIN gResult
     /\ ReturnedAfter({"reject", "notext", "nothemes", "noinsights", "noids"})
        => gResult.fallback

\* C13: one generateInsights invocation calls the model at most once: not at
\* all for an empty or missing list or without an API key, once otherwise,
\* and no second time after a failed or malformed call
C13_AtMostOneCall ==
  /\ gCalls <= 1
  /\ gPc = "llm" => gCalls = 1
  /\ gPc = "returned"
     => gCalls = (IF NonEmptyInput /\ apiKey THEN 1 ELSE 0)

\* the call was rejected and generateInsights returned the fallback after that
\* one call
C13_Witness ==
  /\ ReturnedAfter({"reject"})
  /\ gArticles = Arg(<< A1, A2 >>)
  /\ gResult = getFallbackInsights(<< A1, A2 >>)
  /\ gCalls = 1

\* a source occurs in some insight of the themes
Covered(themes, src) ==
  \E t \in 1..Len(themes) :
    \E k \in 1..Len(themes[t].insights) :
      \E a \in 1..Len(themes[t].insights[k].articles) :
        themes[t].insights[k].articles[a].source = src

\* C14 as stated: for every non-empty article list of any length and every
\* outcome of the model call, every source of the list is the source of an
\* article in some insight of the returned themes
C14_SourceCoverage ==
  (gPc = "returned" /\ NonEmptyInput)
  => /\ gResult # Thrown
     /\ \A src \in SourcesOf(gArticles.list) : Covered(gResult.themes, src)

\* C15 as stated: ensureSourceCoverage applied to its own output with the
\* same summaries returns that output
C15_Idempotent ==
  ReturnedAfter({"json"})
  => LET summaries == ArticleSummaries(gArticles.list)
         once == ensureSourceCoverage(
                   themesWithArticles(gResp.themes, summaries), summaries)
     IN ensureSourceCoverage(once, summaries) = once

\* the summaries an insight's articleIds stand for: those ids that index an
\* analysed article, in the order given
Resolved(ids, summaries) ==
  LET valid == SelectSeq(ids, LAMBDA i : i \in 0..(Len(summaries) - 1))
  IN [j \in 1..Len(valid) |->
        CHOOSE x \in { summaries[n] : n \in 1..Len(summaries) } :
          x.id = valid[j]]

UniqueLinks ==
  /\ \A i, j \in 1..Len(articleIds) : articleIds[i] = articleIds[j] => i = j
  /\ {articleIds[i] : i \in 1..Len(articleIds)} = DOMAIN dbArticles
  /\ \A k \in DOMAIN dbArticles : dbArticles[k].link = k

\* a step that is a saveArticle call on a link the store already holds
IsResave ==
  /\ sOps' = sOps + 1
  /\ sCall'.op = "saveArticle"
  /\ sCall'.arg.link \in DOMAIN dbArticles

SatisfiesFilters(a, filters) ==
  /\ filters.source.some => a.source = filters.source.v
  /\ filters.category.some => CategoryOfLink(a.link) = filters.category.v
  /\ filters.startDate.some => DayOf(a.pubDate) >= filters.startDate.v
  /\ filters.endDate.some => DayOf(a.pubDate) <= filters.endDate.v
  /\ filters.keyword.some =>
       \/ includes(toLowerCase(a.title), toLowerCase(filters.keyword.v))
       \/ includes(toLowerCase(a.summary), toLowerCase(filters.keyword.v))

\* C20: every article getArticles(filters) returns satisfies every supplied
\* filter among source, category, startDate, endDate and keyword, and every
\* stored article that satisfies all of them is returned
C20_FilterConjunction ==
  sCall.op = "getArticles" =>
    /\ \A i \in 1..Len(sRet) : SatisfiesFilters(sRet[i], sCall.arg)
    /\ \A k \in DOMAIN dbArticles :
         SatisfiesFilters(dbArticles[k], sCall.arg)
           => \E i \in 1..Len(sRet) : sRet[i] = dbArticles[k]

\* C21: the result of getArticles is ordered by pubDate descending (no
\* returned article is newer than one before it) and holds at most ResultCap
\* articles, whatever the store holds and whatever the filters are
C21_OrderedAndCapped ==
  sCall.op = "getArticles" =>
    /\ \A i, j \in 1..Len(sRet) : i < j => sRet[i].pubDate >= sRet[j].pubDate
    /\ Len(sRet) <= ResultCap

\* C22: a cleanOldArticles call removes exactly the stored articles published
\* before now minus RetentionDays days (one published 91 days ago is removed,
\* one published 89 days ago is kept), leaves every other article unchanged
\* and returns the number of articles it removed
C22_RetentionSweep ==
  [][(sOps' = sOps + 1 /\ sCall'.op = "cleanOldArticles") =>
       LET old == {k \in DOMAIN dbArticles :
                     dbArticles[k].pubDate < now - RetentionDays * 24}
       IN /\ DOMAIN dbArticles' = DOMAIN dbArticles \ old
          /\ \A k \in DOMAIN dbArticles' : dbArticles'[k] = dbArticles[k]
          /\ {articleIds'[i] : i \in 1..Len(articleIds')} = DOMAIN dbArticles'
          /\ sRet' = [removed |-> Cardinality(old)]
          /\ \A k \in DOMAIN dbArticles :
               /\ dbArticles[k].pubDate = now - 91 * 24
                    => k \notin DOMAIN dbArticles'
               /\ dbArticles[k].pubDate = now - 89 * 24
                    => k \in DOMAIN dbArticles']_vars

\* the sweep removed the 91-day-old l3 and kept the 89-day-old l2
C22_Witness ==
  /\ sCall.op = "cleanOldArticles"
  /\ sRet = [removed |-> 1]
  /\ DOMAIN dbArticles = {"l2"}
  /\ dbArticles["l2"].pubDate = now - 89 * 24

\* the themes ensureSourceCoverage is given in the returned generation
ThemesBefore ==
  themesWithArticles(gResp.themes, ArticleSummaries(gArticles.list))

\* the analysed sources that no insight of the given themes holds
MissingSources ==
  {src \in SourcesOf(ArticleSummaries(gArticles.list)) :
     ~Covered(ThemesBefore, src)}

\* positions of the themes that differ from the given ones or were added
Touched ==
  {t \in 1..Len(gResult.themes) :
     t > Len(ThemesBefore) \/ gResult.themes[t] # ThemesBefore[t]}

\* C23: ensureSourceCoverage leaves every given theme and insight unchanged
\* and in order, and adds exactly one insight per missing source, each with
\* between 1 and CoverageLimit articles all of that source, all in a single
\* catch-all theme; the theme 'Industry Commentary & Updates' is created, at
\* most once and last, only when no given theme name contains 'commentary',
\* 'roundup' or 'industry news' in any letter case
C23_OnlyAppends ==
  (ReturnedAfter({"json"}) /\ gResult # Thrown) =>
    LET before == ThemesBefore
        after == gResult.themes
        added(t) == IF t <= Len(before)
                      THEN SubSeq(after[t].insights,
                                  Len(before[t].insights) + 1,
                                  Len(after[t].insights))
                      ELSE after[t].insights
    IN /\ Len(after) \in {Len(before), Len(before) + 1}
       /\ \A t \in 1..Len(before) :
            /\ after[t].name = before[t].name
            /\ Len(after[t].insights) >= Len(before[t].insights)
            /\ SubSeq(after[t].insights, 1, Len(before[t].insights))
                 = before[t].insights
       /\ Cardinality(Touched) <= 1
       /\ \A t \in Touched :
            /\ IsCatchAll(after[t].name)
            /\ Len(added(t)) = Cardinality(MissingSources)
            /\ \A src \in MissingSources :
                 \E k \in 1..Len(added(t)) :
                   /\ Len(added(t)[k].articles) \in 1..CoverageLimit
                   /\ \A a \in 1..Len(added(t)[k].articles) :
                        added(t)[k].articles[a].source = src
       /\ Touched = {} => MissingSources = {}
       /\ Len(after) > Len(before) =>
            /\ after[Len(after)].name = CommentaryName
            /\ \A t \in 1..Len(before) : ~IsCatchAll(before[t].name)

\* requests of ip passed to next() by the bursts i..j of rPassed[ip]
RECURSIVE PassedIn(_, _, _)
PassedIn(ip, i, j) ==
  IF i > j THEN 0 ELSE rPassed[ip][i].n + PassedIn(ip, i + 1, j)

\* a step in which a burst of requests is handled
IsBurst == rBursts' = rBursts + 1

\* C24 as stated: no ip has more than RATE_LIMIT_MAX_REQUESTS requests passed
\* to next() within any period of 60 seconds; a request beyond that is
\* answered 429 and not passed on; the requests of one ip change nothing for
\* the other ips
C24_RateLimit ==
  [][/\ \A ip \in ClientIps :
          \A i, j \in 1..Len(rPassed'[ip]) :
            (i <= j /\ rPassed'[ip][j].at - rPassed'[ip][i].at
                         < RATE_LIMIT_WINDOW_MS)
              => PassedIn(ip, i, j)' <= RATE_LIMIT_MAX_REQUESTS
     /\ IsBurst =>
          /\ rLast'.passed + rLast'.status429 = rLast'.n
          /\ \A ip \in ClientIps \ {rLast'.ip} :
               /\ rateLimitStore'[ip] = rateLimitStore[ip]
               /\ rPassed'[ip] = rPassed[ip]]_vars

\* the functions whose fn() was called and has not settled
Running == {i \in Fns : lFn[i] = "running"}

\* every submitted function has settled and the reactions to it have run
AllSettled == \A i \in Fns : lFn[i] \in {"new", "done"}

\* C25: for a limiter created with createLimiter(n), 0 <= active <= n in
\* every state, at most n submitted functions are running at once, and
\* active is 0 again once all submitted functions have settled
C25_LimiterBound ==
  lConcurrency > 0 =>
    /\ 0 <= lActive /\ lActive <= lConcurrency
    /\ Cardinality(Running) <= lActive
    /\ AllSettled => lActive = 0

\* the limiter of fetchAllFeeds is full, a sixth function waits, and one of
\* the five started has been rejected
C25_Witness ==
  /\ lConcurrency = FeedConcurrency
  /\ lActive = FeedConcurrency
  /\ Len(lQueue) > 0
  /\ \E i \in Fns : lFn[i] = "rejected"

\* C26: provided every started function eventually settles, every function
\* submitted to the limiter is eventually started, functions are started in
\* the order of submission, and the promise returned for a function settles
\* with that function's own outcome, whatever the outcomes of the others
C26_LimiterProgress ==
  /\ \A i \in Fns : (lFn[i] = "queued") ~> (lFn[i] # "queued")
  /\ \A i \in Fns : (lPromise[i] = "pending") ~> (lPromise[i] # "pending")
  /\ [](\A k \in 1..Len(lStarted) : lStarted[k] = k)
  /\ [][\A i \in Fns :
          lPromise'[i] # lPromise[i] =>
            \/ lPromise[i] = "none" /\ lPromise'[i] = "pending"
            \/ /\ lPromise[i] = "pending"
               /\ lFn[i] \in {"resolved", "rejected"}
               /\ lPromise'[i] = lFn[i]]_vars

\* with one function at a time, the first was rejected and the second, which
\* waited in the queue behind it, was started and has resolved
C26_Witness ==
  /\ lConcurrency = 1
  /\ lPromise[1] = "rejected"
  /\ lPromise[2] = "resolved"
  /\ lStarted = << 1, 2 >>

\* C27: fetchRSS makes at most maxRetries parse attempts per call and none
\* after the first successful one, sleeps 2^(k-1) seconds after failed attempt
\* k only when k < maxRetries, and returns an empty list when every attempt
\* failed; fetchAllFeeds then resolves, with the articles of every source
\* whose fetch succeeded
C27_FetchRetry ==
  [][/\ \A i \in Sources :
          /\ fParses'[i] <= maxRetries
          /\ fSucceeded[i] => fParses'[i] = fParses[i]
          /\ Len(fSleeps'[i]) = Min(fFailed'[i], maxRetries - 1)
          /\ \A k \in 1..Len(fSleeps'[i]) :
               fSleeps'[i][k] = 2 ^ (k - 1) * 1000
          /\ (fPc'[i] = "returned" /\ ~fSucceeded'[i]) =>
               /\ fFailed'[i] = maxRetries
               /\ fResult'[i] = << >>
               /\ lFn'[i] \in {"resolved", "done"}
               /\ lPromise'[i] # "rejected"
     /\ fAll' # None =>
          /\ fAll' # Thrown
          /\ \A i \in Sources :
               fSucceeded'[i] =>
                 \E k \in 1..Len(fAll'.articles) :
                   fAll'.articles[k] = ArticlesOf(i)[1]]_vars

\* source 1 failed three times with sleeps of 1 s and 2 s, source 2 succeeded
\* at its second attempt, and fetchAllFeeds resolved with the articles of 2
C27_Witness ==
  /\ fAll # None
  /\ fFailed[1] = maxRetries
  /\ fSleeps[1] = << 1000, 2000 >>
  /\ fResult[1] = << >>
  /\ fParses[2] = 2
  /\ fSucceeded[2]
  /\ \E k \in 1..Len(fAll.articles) : fAll.articles[k] = ArticlesOf(2)[1]

\* C28 as stated: for every authorized /run-digest request, once
\* runDailyDigest has settled the keep-alive timer is cleared and the
\* response was ended at most once; no keep-alive write follows the end of
\* the response, and nothing is written or ended on the response after the
\* client connection has closed
C28_DigestLifecycle ==
  \A r \in DigestRequests :
    /\ dReq[r].pc = "done" => ~dReq[r].keepAlive /\ dReq[r].ends <= 1
    /\ ~dReq[r].writeAfterEnd
    /\ ~dReq[r].usedAfterClose

\* an InsightSet with success = false or fallback = true
Degraded(set) == ~set.success \/ set.fallback

AnsweredFromCache(q, cat) ==
  /\ req[q].pc = "done"
  /\ req[q].resp # None
  /\ "generatedAt" \in DOMAIN req[q].resp
  /\ req[q].resp.category = cat

HitIgnoresArticles ==
  [][\A r \in Requests :
       (/\ req[r].pc = "check"
        /\ getTodaysInsights(req[r].cat) # None
        /\ req'[r] # req[r])
       => /\ req'[r].resp = getTodaysInsights(req[r].cat)
          /\ \A q \in Requests \ {r} :
               (/\ AnsweredFromCache(q, req[r].cat)
                /\ req[q].resp.gen = lastSave[req[r].cat].gen)
               => req'[r].resp = req[q].resp]_vars

====
